---- MODULE Spec2Model ----
(***************************************************************************)
(* Model lifecycle of the MLOps training / serving scripts:                *)
(*   - ModelPredictor (src/src/models/predict.py): the "currently loaded   *)
(*     model" slot, its loads and predictions, run by asyncio callers;     *)
(*   - save_model_and_metadata (src/src/models/train.py): the local store; *)
(*   - evaluate_model (train.py) and ModelTrainer (train_mlflow.py).       *)
(***************************************************************************)
EXTENDS Integers, Sequences, FiniteSets, TLC

VARIABLES
    \* ---- ModelPredictor (predict.py) ----
    mlflow_client,    \* self.mlflow_client: TRUE when a client was injected
    model,            \* self.model: None or a model handle
    current_version,  \* self.current_version
    current_run_id,   \* self.current_run_id
    model_metadata,   \* self.model_metadata: None or the client's record
    registry,         \* the tracking service: requested version -> record | Null
    callers,          \* one coroutine per caller: position and arguments
    returned,         \* the call that ended last: its arguments and outcome
    succeeded,        \* history: some load_* has run to completion
    \* ---- the local store of save_model_and_metadata (train.py) ----
    clock,            \* the wall clock datetime.now() reads, in ticks
    modelFile,        \* model_<version>.pkl, by version
    modelLatest,      \* model_latest.pkl
    metaFile,         \* metadata_<version>.json, by version
    metaLatest,       \* metadata_latest.json
    save,             \* the call in progress: position, run, version, metadata
    saved,            \* the call that ended last: run, outcome, returned version
    runs,             \* history: the version each call generated, in call order
    \* ---- an evaluation (train.py and train_mlflow.py) ----
    evalModel,        \* the classifier: has predict_proba?, classes it was fitted on
    evalTarget,       \* y_test
    evalBy,           \* which evaluate_model was applied, None before
    evalOut,          \* what it returned or raised
    \* ---- ModelTrainer and train_pipeline (train_mlflow.py) ----
    trainer,          \* self.mlflow_client, self.data_access, self.model, self.metrics
    fits,             \* history: classifiers constructed so far
    evaluated,        \* history: the model evaluate_model last completed on
    tcall,            \* the method call in progress or ended last
    tracking,         \* the tracking service: the runs log_model_training logged
    artifactFile,     \* <artifacts_dir>/model.pkl
    database,         \* the metadata database: rows and connection
    pipe              \* train_pipeline: position, locals, outcome

predictorVars ==
    <<mlflow_client, model, current_version, current_run_id, model_metadata,
      registry, callers, returned, succeeded>>

storeVars ==
    <<clock, modelFile, modelLatest, metaFile, metaLatest, save, saved, runs>>

evalVars == <<evalModel, evalTarget, evalBy, evalOut>>

trainerVars ==
    <<trainer, fits, evaluated, tcall, tracking, artifactFile, database, pipe>>

vars == <<predictorVars, storeVars, evalVars, trainerVars>>

\* What each component leaves alone.
besidesPredictor == <<storeVars, evalVars, trainerVars>>
besidesStore == <<predictorVars, evalVars, trainerVars>>
besidesEval == <<predictorVars, storeVars, trainerVars>>
besidesTrainer == <<predictorVars, storeVars, evalVars>>

-----------------------------------------------------------------------------
(* Values *)

None == "None"                \* Python's None, where a string may stand
NoObject == [none |-> TRUE]   \* Python's None, where an object may stand
Null == NoObject              \* the tracking client's "no such model" answer

\* Number of coroutines that use one ModelPredictor at the same time.
NumCallers == 2

Callers == 1 .. NumCallers

\* Records the tracking client returns: the shape of section 6 of the
\* specification, {model_uri, version, run_id, tags, metrics, params, stage}.
Records ==
    { [model_uri |-> "uri1", version |-> "v1", run_id |-> "run1",
       tags |-> "2024-01-01", metrics |-> "m1", params |-> "p1",
       stage |-> "Production"],
      [model_uri |-> "uri2", version |-> "v2", run_id |-> "run2",
       tags |-> None, metrics |-> "m2", params |-> "p2",
       stage |-> "Staging"] }

\* The keys the loads index directly (model_info["model_uri"], ["version"],
\* ["run_id"]: lines 33-35 and 50-52); the others are read with .get.
IndexedKeys == {"model_uri", "version", "run_id"}

\* Record r without key k.
Without(r, k) == [f \in DOMAIN r \ {k} |-> r[f]]

\* Records that lack one of the indexed keys.
Malformed == {Without(r, k) : r \in Records, k \in IndexedKeys}

\* Record r has every key the loads index.
Whole(r) == IndexedKeys \subseteq DOMAIN r

\* Version strings a caller may ask for.
Keys == {"v1", "v2"}

\* model_version arguments of predict: absent, the empty string, or a key.
VersionArgs == {None, ""} \cup Keys

\* Python truthiness of an Optional[str]: None and "" are falsy.
Truthy(a) == a \notin {None, ""}

\* load_model(uri): the handle the tracking client builds for an artifact.
\* The first artifact is a classifier with predict_proba, the second a bare
\* regressor-like model without it.
ModelHandle(uri) == [uri |-> uri, proba |-> (uri = "uri1")]

NoOut == [kind |-> "none"]
Raised(e) == [kind |-> "err", err |-> e]
Returned(v) == [kind |-> "ok", value |-> v]

\* A coroutine that is not running: no call in progress.
Fresh ==
    [pc |-> "idle", op |-> None, arg |-> None, info |-> Null, loads |-> 0,
     differs |-> FALSE, follows |-> FALSE]

NoCall ==
    [op |-> None, arg |-> None, loads |-> 0,
     differs |-> FALSE, follows |-> FALSE, out |-> NoOut, prev |-> NoOut]

-----------------------------------------------------------------------------
(* ModelPredictor: src/src/models/predict.py *)

\* The dictionary predict returns (lines 85-90). "prediction" names the model
\* object whose predict method computed it.
PredictResult(m, ver, run) ==
    [prediction |-> m.uri, model_version |-> ver, model_run_id |-> run,
     confidence |-> IF m.proba THEN "max_proba" ELSE None]

\* os.getenv("MODEL_NAME", "mlops-model") (line 98): nothing in the program
\* writes the environment, so the name is one string for the whole run.
ModelName == "mlops-model"

\* The dictionary get_model_info returns (lines 97-105).
ModelInfo(ver, run, meta) ==
    [model_name |-> ModelName, model_version |-> ver, model_run_id |-> run,
     training_date |-> IF meta.tags = None THEN "Unknown" ELSE meta.tags,
     metrics |-> meta.metrics, parameters |-> meta.params,
     is_production |-> (meta.stage = "Production")]

\* A slip the not-loaded guard could make: the message of get_model_info.
NotLoadedErrorOfInfo == Raised("No model loaded")

\* The error of line 68.
NotLoadedError == Raised("Model not loaded")

\* The call that coroutine c runs, as begun by `call`, ends with outcome o.
\* `prev` is history: for a get_model_info that follows a get_model_info,
\* what that one answered.
Ended(c, call, o) ==
    [op |-> call.op, arg |-> call.arg, loads |-> call.loads,
     differs |-> call.differs, follows |-> call.follows, out |-> o,
     prev |-> IF call.op = "get_model_info" /\ call.follows
              THEN returned.out ELSE NoOut]

\* Coroutine c suspends at an await, in position p.
Suspend(c, call, p) ==
    /\ callers' = [callers EXCEPT ![c] = [call EXCEPT !.pc = p]]
    /\ UNCHANGED returned

\* Coroutine c ends (returns or raises) with outcome o.
Finish(c, call, o) ==
    /\ callers' = [callers EXCEPT ![c] = Fresh]
    /\ returned' = Ended(c, call, o)

\* get_latest_production_model(): the record in stage Production, if any,
\* among the well-formed records and those the service holds.
ProductionAnswers ==
    {Null} \cup
    {r \in Records \cup ({registry[k] : k \in Keys} \ {Null}) :
        r.stage = "Production"}

\* __init__ (lines 15-21); the client is the constructor's argument and the
\* registry is the state of the tracking service.
PredictorInit ==
    /\ mlflow_client \in BOOLEAN
    /\ model = NoObject
    /\ current_version = None
    /\ current_run_id = None
    /\ model_metadata = NoObject
    /\ registry \in [Keys -> Records \cup {Null}]
    /\ callers = [c \in Callers |-> Fresh]
    /\ returned = NoCall
    /\ succeeded = FALSE

\* The call that ended last was a predict that returned a result for the same
\* truthy version argument a.
FollowsPredict(a) ==
    /\ Truthy(a)
    /\ returned.op = "predict"
    /\ returned.arg = a
    /\ returned.out.kind = "ok"

\* predict, from its call to its first suspension or its end (lines 57-90).
\* A version argument that is truthy and differs from current_version enters
\* load_model_version, which raises at once without a client and otherwise
\* awaits get_model_by_version.
Predict(c, a) ==
    /\ callers[c].pc = "idle"
    /\ LET needLoad == Truthy(a) /\ a # current_version
           begun == [Fresh EXCEPT !.op = "predict", !.arg = a,
                        !.loads = IF needLoad THEN 1 ELSE 0,
                        !.differs = (needLoad /\ model # NoObject),
                        !.follows = FollowsPredict(a)]
       IN  IF needLoad
           THEN /\ IF ~mlflow_client
                   THEN Finish(c, begun, Raised("MLflow client not initialized"))
                   ELSE Suspend(c, begun, "await_info")
           ELSE IF model = NoObject
                THEN /\ Finish(c, begun, NotLoadedError)
                ELSE /\ Finish(c, begun, Returned(
                            PredictResult(model, current_version, current_run_id)))
    /\ UNCHANGED <<mlflow_client, model, current_version, current_run_id,
                   model_metadata, registry, succeeded>>
    /\ UNCHANGED besidesPredictor

\* load_model_version called directly, up to its first await (lines 40-45).
LoadModelVersion(c, v) ==
    /\ callers[c].pc = "idle"
    /\ LET begun == [Fresh EXCEPT !.op = "load_model_version", !.arg = v,
                        !.loads = 1]
       IN  IF ~mlflow_client
           THEN Finish(c, begun, Raised("MLflow client not initialized"))
           ELSE Suspend(c, begun, "await_info")
    /\ UNCHANGED <<mlflow_client, model, current_version, current_run_id,
                   model_metadata, registry, succeeded>>
    /\ UNCHANGED besidesPredictor

\* load_production_model, up to its first await (lines 23-28).
LoadProductionModel(c) ==
    /\ callers[c].pc = "idle"
    /\ LET begun == [Fresh EXCEPT !.op = "load_production_model", !.loads = 1]
       IN  IF ~mlflow_client
           THEN Finish(c, begun, Raised("MLflow client not initialized"))
           ELSE Suspend(c, begun, "await_info")
    /\ UNCHANGED <<mlflow_client, model, current_version, current_run_id,
                   model_metadata, registry, succeeded>>
    /\ UNCHANGED besidesPredictor

\* What get_model_info answers in the current state (lines 94-105).
InfoOutcome ==
    IF model_metadata = NoObject
    THEN Raised("No model loaded")
    ELSE Returned(ModelInfo(current_version, current_run_id, model_metadata))

\* The call record of a get_model_info; `follows` tells that the call that
\* ended last was a get_model_info too.
InfoCall ==
    [Fresh EXCEPT !.op = "get_model_info",
                  !.follows = (returned.op = "get_model_info")]

\* A slip get_model_info could make: a read that consumes the metadata.
GetModelInfoClears(c) ==
    /\ callers[c].pc = "idle"
    /\ Finish(c, InfoCall, InfoOutcome)
    /\ model_metadata' = NoObject
    /\ UNCHANGED <<mlflow_client, model, current_version, current_run_id,
                   registry, succeeded>>
    /\ UNCHANGED besidesPredictor

\* get_model_info (lines 92-105): no await, no assignment.
GetModelInfo(c) ==
    /\ callers[c].pc = "idle"
    /\ Finish(c, InfoCall, InfoOutcome)
    /\ UNCHANGED <<mlflow_client, model, current_version, current_run_id,
                   model_metadata, registry, succeeded>>
    /\ UNCHANGED besidesPredictor

\* A slip the not-found branch could make: drop the loaded model before raising.
LoadNotFoundClears(c) ==
    /\ Finish(c, callers[c], Raised(
           IF callers[c].op = "load_production_model"
           THEN "No production model found"
           ELSE "Model version not found"))
    /\ model' = NoObject
    /\ current_version' = None
    /\ current_run_id' = None
    /\ model_metadata' = NoObject

\* The lookup answered "no such model": lines 30-31 and 47-48 raise and
\* assign nothing.
LoadNotFound(c) ==
    /\ Finish(c, callers[c], Raised(
           IF callers[c].op = "load_production_model"
           THEN "No production model found"
           ELSE "Model version not found"))
    /\ UNCHANGED <<model, current_version, current_run_id, model_metadata>>

\* The lookup answered with a record: the coroutine goes on to await
\* load_model(model_info["model_uri"]) (lines 33 and 50); indexing a record
\* that has no model_uri raises KeyError before the call is made.
LoadFound(c, r) ==
    /\ IF "model_uri" \in DOMAIN r
       THEN Suspend(c, [callers[c] EXCEPT !.info = r], "await_model")
       ELSE Finish(c, callers[c], Raised("KeyError"))
    /\ UNCHANGED <<model, current_version, current_run_id, model_metadata>>

\* The coroutine resumes from get_latest_production_model or
\* get_model_by_version (lines 28-31, 45-48).
ResumeInfo(c) ==
    /\ callers[c].pc = "await_info"
    /\ \E r \in (IF callers[c].op = "load_production_model"
                 THEN ProductionAnswers
                 ELSE {registry[callers[c].arg]}) :
          IF r = Null THEN LoadNotFound(c) ELSE LoadFound(c, r)
    /\ UNCHANGED <<mlflow_client, registry, succeeded>>
    /\ UNCHANGED besidesPredictor

\* The four assignments that follow the await of load_model (lines 33-36 and
\* 50-53); no suspension point separates them. They run in order, and the
\* first that indexes a missing key raises KeyError and ends them there.
AssignLoaded(r) ==
    /\ model' = ModelHandle(r.model_uri)
    /\ current_version' = IF "version" \in DOMAIN r
                          THEN r.version ELSE current_version
    /\ current_run_id' = IF {"version", "run_id"} \subseteq DOMAIN r
                         THEN r.run_id ELSE current_run_id
    /\ model_metadata' = IF Whole(r) THEN r ELSE model_metadata

\* The coroutine resumes from load_model with a handle: the assignments, the
\* return to predict and the rest of predict (lines 67-90) run in one piece.
ResumeModel(c) ==
    /\ callers[c].pc = "await_model"
    /\ AssignLoaded(callers[c].info)
    /\ succeeded' = (succeeded \/ Whole(callers[c].info))
    /\ IF ~Whole(callers[c].info)
       THEN /\ Finish(c, callers[c], Raised("KeyError"))
       ELSE IF callers[c].op = "predict"
       THEN /\ Finish(c, callers[c], Returned(
                   PredictResult(model', current_version', current_run_id')))
       ELSE /\ Finish(c, callers[c], Returned(NoObject))
    /\ UNCHANGED <<mlflow_client, registry>>
    /\ UNCHANGED besidesPredictor

\* An awaited tracking call raises (the remote call failed): the exception
\* leaves the coroutine before any assignment.
ClientRaises(c) ==
    /\ callers[c].pc \in {"await_info", "await_model"}
    /\ Finish(c, callers[c], Raised("tracking call failed"))
    /\ UNCHANGED <<mlflow_client, model, current_version, current_run_id,
                   model_metadata, registry, succeeded>>
    /\ UNCHANGED besidesPredictor

PredictorNext ==
    \E c \in Callers :
        \/ \E a \in VersionArgs : Predict(c, a)
        \/ \E v \in Keys : LoadModelVersion(c, v)
        \/ LoadProductionModel(c)
        \/ GetModelInfo(c)
        \/ ResumeInfo(c)
        \/ ResumeModel(c)
        \/ ClientRaises(c)

-----------------------------------------------------------------------------
(* save_model_and_metadata: src/src/models/train.py, lines 67-107 *)

\* Clock ticks per second: the clock runs finer than the version's format.
TicksPerSecond == 2

\* The clock is followed up to this tick.
MaxClock == 5

\* Calls of save_model_and_metadata that are followed.
MaxRuns == 3

\* datetime.now().strftime('%Y%m%d_%H%M%S') (line 72): the fields are
\* zero-padded and ordered from year to second, so the string is the whole
\* second of the clock, and strings compare as their seconds do.
Strftime(t) == t \div TicksPerSecond

\* version = f"v_{timestamp}" (line 73).
VersionOf(t) == <<"v_", Strftime(t)>>

Versions == {VersionOf(t) : t \in 0 .. MaxClock}

\* Version strings ordered as Python orders them.
VersionLess(v, w) == v[2] < w[2]

\* What joblib.dump(model, path) leaves: the model of training run n.
Artifact(n) == [run |-> n, whole |-> TRUE]

\* The metadata dictionary of lines 86-95. `run` stands for the metrics and
\* the configuration (parameters, features, target) the call was given;
\* training_date is a second reading of the clock.
Metadata(v, n, t) ==
    [version |-> v, training_date |-> t, run |-> n, model_path |-> v,
     whole |-> TRUE]

\* A file whose write stopped part-way: open(path, 'w') truncated it.
Truncated == [whole |-> FALSE]

Idle == [pc |-> "idle", run |-> 0, version |-> NoObject, metadata |-> NoObject]

NoSave == [run |-> 0, ok |-> FALSE, version |-> NoObject]

StoreInit ==
    /\ clock = 0
    /\ modelFile = [v \in Versions |-> NoObject]
    /\ modelLatest = NoObject
    /\ metaFile = [v \in Versions |-> NoObject]
    /\ metaLatest = NoObject
    /\ save = Idle
    /\ saved = NoSave
    /\ runs = <<>>

\* Time passes, also between two writes of one call.
Tick ==
    /\ clock < MaxClock
    /\ clock' = clock + 1
    /\ UNCHANGED <<modelFile, modelLatest, metaFile, metaLatest, save, saved,
                   runs>>
    /\ UNCHANGED besidesStore

\* Lines 69-75: the directory is made and the version is generated.
SaveBegin ==
    /\ save.pc = "idle"
    /\ Len(runs) < MaxRuns
    /\ save' = [pc |-> "model", run |-> Len(runs) + 1,
                version |-> VersionOf(clock), metadata |-> NoObject]
    /\ runs' = Append(runs, VersionOf(clock))
    /\ UNCHANGED <<clock, modelFile, modelLatest, metaFile, metaLatest, saved>>
    /\ UNCHANGED besidesStore

\* Line 77: joblib.dump(model, model_path).
WriteModel ==
    /\ save.pc = "model"
    /\ modelFile' = [modelFile EXCEPT ![save.version] = Artifact(save.run)]
    /\ save' = [save EXCEPT !.pc = "latest"]
    /\ UNCHANGED <<clock, modelLatest, metaFile, metaLatest, saved, runs>>
    /\ UNCHANGED besidesStore

\* Line 82: joblib.dump(model, latest_path).
WriteLatest ==
    /\ save.pc = "latest"
    /\ modelLatest' = Artifact(save.run)
    /\ save' = [save EXCEPT !.pc = "metadata"]
    /\ UNCHANGED <<clock, modelFile, metaFile, metaLatest, saved, runs>>
    /\ UNCHANGED besidesStore

\* Lines 86-99: the metadata is built and written under the version.
WriteMetadata ==
    /\ save.pc = "metadata"
    /\ LET metadata == Metadata(save.version, save.run, clock)
       IN  /\ metaFile' = [metaFile EXCEPT ![save.version] = metadata]
           /\ save' = [save EXCEPT !.pc = "metadata_latest",
                                   !.metadata = metadata]
    /\ UNCHANGED <<clock, modelFile, modelLatest, metaLatest, saved, runs>>
    /\ UNCHANGED besidesStore

\* A slip the latest write could make: the dictionary built anew, with a
\* fresh reading of the clock.
LatestMetadataRebuilt == Metadata(save.version, save.run, clock)

\* What line 105 writes to metadata_latest.json: the dictionary of line 86.
LatestMetadata == save.metadata

\* Lines 103-107: the metadata is written as latest and the call returns
\* (version, model_path, metadata_path).
WriteMetadataLatest ==
    /\ save.pc = "metadata_latest"
    /\ metaLatest' = LatestMetadata
    /\ saved' = [run |-> save.run, ok |-> TRUE, version |-> save.version]
    /\ save' = Idle
    /\ UNCHANGED <<clock, modelFile, modelLatest, metaFile, runs>>
    /\ UNCHANGED besidesStore

\* A write raises (disk full, permissions, a value json cannot encode): the
\* file either is as it was or holds a truncated write, and the exception
\* ends the call with the files written so far left in place.
WriteFails ==
    /\ save.pc \in {"model", "latest", "metadata", "metadata_latest"}
    /\ \E truncate \in BOOLEAN :
          /\ modelFile' = IF truncate /\ save.pc = "model"
                          THEN [modelFile EXCEPT ![save.version] = Truncated]
                          ELSE modelFile
          /\ modelLatest' = IF truncate /\ save.pc = "latest"
                            THEN Truncated ELSE modelLatest
          /\ metaFile' = IF truncate /\ save.pc = "metadata"
                         THEN [metaFile EXCEPT ![save.version] = Truncated]
                         ELSE metaFile
          /\ metaLatest' = IF truncate /\ save.pc = "metadata_latest"
                           THEN Truncated ELSE metaLatest
    /\ saved' = [run |-> save.run, ok |-> FALSE, version |-> NoObject]
    /\ save' = Idle
    /\ UNCHANGED <<clock, runs>>
    /\ UNCHANGED besidesStore

StoreNext ==
    \/ Tick
    \/ SaveBegin
    \/ WriteModel
    \/ WriteLatest
    \/ WriteMetadata
    \/ WriteMetadataLatest
    \/ WriteFails

-----------------------------------------------------------------------------
(* evaluate_model: src/src/models/train.py, lines 48-64, and                *)
(* ModelTrainer.evaluate_model: src/src/models/train_mlflow.py, lines 66-88 *)

\* Labels a target column may hold.
MaxLabels == 3

\* Rows of a test split that are followed.
MaxTest == 3

Labels == 0 .. (MaxLabels - 1)

TestTargets == UNION {[1 .. n -> Labels] : n \in 1 .. MaxTest}

\* Classifiers: with or without predict_proba, fitted on 1..MaxLabels classes.
Classifiers == [proba : BOOLEAN, classes : 1 .. MaxLabels]

\* np.unique(y_test): the distinct labels of the test target.
Unique(y) == {y[i] : i \in DOMAIN y}

\* accuracy, and weighted precision, recall and F1 (lines 53-58 of train.py,
\* lines 74-79 of train_mlflow.py): defined for any number of labels.
BaseMetrics == {"accuracy", "precision", "recall", "f1_score"}

\* model.predict_proba(X_test)[:, 1]: the second column exists when the
\* classifier was fitted on two classes or more.
HasSecondColumn(m) == m.classes >= 2

\* sklearn's roc_auc_score(y_true, y_score) for a one-column score: a number
\* for a binary y_true; ValueError for three labels or more (multi_class is
\* left at "raise"); for a single label ValueError, or nan with a warning,
\* by the library's release.
RocAucScore(y) ==
    IF Cardinality(Unique(y)) = 2 THEN {Returned("auc")}
    ELSE IF Cardinality(Unique(y)) >= 3 THEN {Raised("ValueError")}
    ELSE {Raised("ValueError"), Returned("nan")}

\* evaluate_model of train.py: the outcomes of one call.
EvaluateModel(m, y) ==
    IF m.proba /\ Cardinality(Unique(y)) = 2
    THEN IF ~HasSecondColumn(m)
         THEN {Raised("IndexError")}
         ELSE {IF r.kind = "ok"
               THEN Returned(BaseMetrics \cup {"roc_auc"})
               ELSE r : r \in RocAucScore(y)}
    ELSE {Returned(BaseMetrics)}

\* ModelTrainer.evaluate_model on a trained model: the outcomes of one call.
\* The probabilities are taken whenever predict_proba exists (line 72) and
\* roc_auc_score is called whenever they were taken (lines 81-82).
TrainerEvaluateModel(m, y) ==
    IF m.proba
    THEN IF ~HasSecondColumn(m)
         THEN {Raised("IndexError")}
         ELSE {IF r.kind = "ok"
               THEN Returned(BaseMetrics \cup {"roc_auc"})
               ELSE r : r \in RocAucScore(y)}
    ELSE {Returned(BaseMetrics)}

EvalInit ==
    /\ evalModel \in Classifiers
    /\ evalTarget \in TestTargets
    /\ evalBy = None
    /\ evalOut = NoOut

\* The function of train.py is applied to the inputs.
ApplyEvaluateModel ==
    /\ evalBy = None
    /\ evalBy' = "evaluate_model"
    /\ evalOut' \in EvaluateModel(evalModel, evalTarget)
    /\ UNCHANGED <<evalModel, evalTarget>>
    /\ UNCHANGED besidesEval

\* The method of ModelTrainer is applied to the inputs.
ApplyTrainerEvaluateModel ==
    /\ evalBy = None
    /\ evalBy' = "ModelTrainer.evaluate_model"
    /\ evalOut' \in TrainerEvaluateModel(evalModel, evalTarget)
    /\ UNCHANGED <<evalModel, evalTarget>>
    /\ UNCHANGED besidesEval

EvalNext ==
    \/ ApplyEvaluateModel
    \/ ApplyTrainerEvaluateModel

\* No evaluation under way.
EvalAtRest ==
    /\ evalModel = [proba |-> TRUE, classes |-> 2]
    /\ evalTarget = <<0>>
    /\ evalBy = None
    /\ evalOut = NoOut

-----------------------------------------------------------------------------
(* ModelTrainer: src/src/models/train_mlflow.py, lines 27-153 *)

\* Classifiers one trainer constructs.
MaxFits == 2

\* Runs the tracking service is followed for.
MaxLogs == 1

\* self.metrics = {} (line 36): the metrics of no model.
NoMetrics == [of |-> 0, keys |-> {}]

\* __init__ (lines 30-36).
NewTrainer ==
    [client |-> FALSE, db |-> FALSE, model |-> NoObject, metrics |-> NoMetrics]

NoTCall == [op |-> None, pc |-> "idle", state |-> None, out |-> NoOut]

\* The order in which a metrics dictionary yields its keys (lines 74-82).
MetricOrder == <<"accuracy", "precision", "recall", "f1_score", "roc_auc">>

\* The first k keys of a metrics dictionary.
FirstKeys(keys, k) ==
    LET present == SelectSeq(MetricOrder, LAMBDA x : x \in keys)
    IN  {present[i] : i \in 1 .. k}

\* The lifecycle state of section 4.1 a trainer is in.
LifecycleState ==
    IF trainer.model = NoObject THEN "Configured"
    ELSE IF trainer.model.fitted /\ evaluated = trainer.model.id THEN "Evaluated"
    ELSE "Trained"

TrainerInit ==
    /\ trainer = NewTrainer
    /\ fits = 0
    /\ evaluated = 0
    /\ tcall = NoTCall
    /\ tracking = <<>>
    /\ artifactFile = NoObject
    /\ database = [metadata |-> NoObject, metrics |-> {}, open |-> FALSE]
    /\ pipe = [pc |-> "none", run_id |-> 0, version |-> NoObject,
               logged |-> FALSE, db_failed |-> FALSE, out |-> NoOut]

\* Trainer t after setup.
SetupOf(t, url) ==
    [t EXCEPT !.client = TRUE, !.db = IF url THEN TRUE ELSE t.db]

\* setup (lines 43-50): the client is made; the database is opened when
\* DATABASE_URL is set.
SetupEffect(url) ==
    /\ trainer' = SetupOf(trainer, url)
    /\ database' = [database EXCEPT !.open = IF url THEN TRUE ELSE database.open]
    /\ UNCHANGED <<fits, evaluated, tracking, artifactFile>>

\* train_model (lines 52-64): self.model is assigned the new classifier
\* before fit runs, so a fit that raises leaves an unfitted classifier; a
\* constructor that raises (a parameter it does not take) leaves self.model.
\* `how` is "ok", "fit_raises" or "init_raises".
TrainerAfterTrain(how, classes) ==
    IF how = "init_raises" THEN trainer
    ELSE [trainer EXCEPT !.model =
            [id |-> fits + 1, fitted |-> (how = "ok"), proba |-> TRUE,
             classes |-> classes]]

FitsAfterTrain(how) == IF how = "init_raises" THEN fits ELSE fits + 1

TrainModelOutcome(how) ==
    IF how = "ok" THEN Returned(fits + 1) ELSE Raised("train_model raised")

\* The outcomes of evaluate_model on the trainer's model (lines 66-88).
EvaluateOutcomes(y) ==
    IF trainer.model = NoObject THEN {Raised("Model not trained yet")}
    ELSE IF ~trainer.model.fitted THEN {Raised("NotFittedError")}
    ELSE TrainerEvaluateModel(trainer.model, y)

\* evaluate_model with outcome o: self.metrics is assigned the four base
\* metrics at line 74, before roc_auc_score can raise at line 82.
TrainerAfterEvaluate(o) ==
    IF o.kind = "ok"
    THEN [trainer EXCEPT !.metrics = [of |-> trainer.model.id, keys |-> o.value]]
    ELSE IF o.err = "ValueError"
    THEN [trainer EXCEPT !.metrics = [of |-> trainer.model.id, keys |-> BaseMetrics]]
    ELSE trainer

\* The model evaluate_model has completed on last.
EvaluatedAfter(o) == IF o.kind = "ok" THEN trainer.model.id ELSE evaluated

\* Line 95: the guard of log_to_mlflow on the model.
LogGuardRaises == trainer.model = NoObject

\* log_to_mlflow up to its await (lines 90-114): None when it goes on to
\* await log_model_training, else the error it raises.
LogToMlflowRaises ==
    IF ~trainer.client THEN Raised("MLflow client not initialized")
    ELSE IF LogGuardRaises THEN Raised("Model not trained yet")
    ELSE NoOut

\* Lines 99-106: with an artifacts directory the model is dumped to model.pkl.
DumpArtifact(dir) ==
    artifactFile' = IF dir /\ LogToMlflowRaises = NoOut
                    THEN [model |-> trainer.model.id]
                    ELSE artifactFile

\* log_model_training returns: the service holds the run with the model and
\* the metrics that were passed (lines 109-117).
LoggedRun == [model |-> trainer.model.id, metrics_of |-> trainer.metrics.of,
              keys |-> trainer.metrics.keys]

\* save_model_metadata returns (lines 125-135): the row it saved last.
MetadataRow(version, run_id) ==
    [model_version |-> version, model_run_id |-> run_id,
     metrics_of |-> trainer.metrics.of]

\* log_performance_metric has returned for the first k metrics (lines 142-148).
MetricRows(version, k) ==
    {[model_version |-> version, metric_name |-> n] :
        n \in FirstKeys(trainer.metrics.keys, k)}

\* One test target for each number of distinct labels.
SampleTargets == {[i \in 1 .. n |-> i - 1] : n \in 1 .. MaxTest}

-----------------------------------------------------------------------------
(* ModelTrainer's methods called one after another on one trainer *)

TCallEnds(op, o) ==
    tcall' = [op |-> op, pc |-> "idle", state |-> LifecycleState, out |-> o]

Setup ==
    /\ tcall.pc = "idle"
    /\ \E url \in BOOLEAN : SetupEffect(url)
    /\ TCallEnds("setup", Returned(NoObject))
    /\ UNCHANGED pipe
    /\ UNCHANGED besidesTrainer

TrainModel ==
    /\ tcall.pc = "idle"
    /\ fits < MaxFits
    /\ \E how \in {"ok", "fit_raises", "init_raises"}, classes \in 1 .. MaxLabels :
          /\ trainer' = TrainerAfterTrain(how, classes)
          /\ fits' = FitsAfterTrain(how)
          /\ TCallEnds("train_model", TrainModelOutcome(how))
    /\ UNCHANGED <<evaluated, tracking, artifactFile, database, pipe>>
    /\ UNCHANGED besidesTrainer

TrainerEvaluate ==
    /\ tcall.pc = "idle"
    /\ \E y \in SampleTargets : \E o \in EvaluateOutcomes(y) :
          /\ trainer' = TrainerAfterEvaluate(o)
          /\ evaluated' = EvaluatedAfter(o)
          /\ TCallEnds("evaluate_model", o)
    /\ UNCHANGED <<fits, tracking, artifactFile, database, pipe>>
    /\ UNCHANGED besidesTrainer

LogToMlflow ==
    /\ tcall.pc = "idle"
    /\ Len(tracking) < MaxLogs
    /\ \E dir \in BOOLEAN : DumpArtifact(dir)
    /\ IF LogToMlflowRaises = NoOut
       THEN tcall' = [op |-> "log_to_mlflow", pc |-> "await_log",
                      state |-> LifecycleState, out |-> NoOut]
       ELSE TCallEnds("log_to_mlflow", LogToMlflowRaises)
    /\ UNCHANGED <<trainer, fits, evaluated, tracking, database, pipe>>
    /\ UNCHANGED besidesTrainer

\* The coroutine resumes from log_model_training, with a run id or an error.
LogToMlflowResumes ==
    /\ tcall.pc = "await_log"
    /\ \/ /\ tracking' = Append(tracking, LoggedRun)
          /\ tcall' = [tcall EXCEPT !.pc = "idle",
                                    !.out = Returned(Len(tracking) + 1)]
       \/ /\ tcall' = [tcall EXCEPT !.pc = "idle",
                                    !.out = Raised("tracking call failed")]
          /\ UNCHANGED tracking
    /\ UNCHANGED <<trainer, fits, evaluated, artifactFile, database, pipe>>
    /\ UNCHANGED besidesTrainer

\* save_to_database (lines 119-135), to its end, called with the version of
\* the clock and the id of the run logged last.
SaveToDatabase ==
    /\ tcall.pc = "idle"
    /\ \E fails \in BOOLEAN :
          IF ~trainer.db
          THEN /\ UNCHANGED database
               /\ TCallEnds("save_to_database", Returned(NoObject))
          ELSE IF fails
          THEN /\ UNCHANGED database
               /\ TCallEnds("save_to_database", Raised("database call failed"))
          ELSE /\ database' = [database EXCEPT !.metadata =
                                  MetadataRow(VersionOf(clock), Len(tracking))]
               /\ TCallEnds("save_to_database", Returned(NoObject))
    /\ UNCHANGED <<trainer, fits, evaluated, tracking, artifactFile, pipe>>
    /\ UNCHANGED besidesTrainer

\* save_performance_metrics (lines 137-148), to its end: the call that fails
\* leaves the rows of the metrics before it.
SavePerformanceMetrics ==
    /\ tcall.pc = "idle"
    /\ IF ~trainer.db
       THEN /\ UNCHANGED database
            /\ TCallEnds("save_performance_metrics", Returned(NoObject))
       ELSE \E k \in 0 .. Cardinality(trainer.metrics.keys) :
               /\ database' = [database EXCEPT !.metrics =
                                  @ \cup MetricRows(VersionOf(clock), k)]
               /\ TCallEnds("save_performance_metrics",
                            IF k = Cardinality(trainer.metrics.keys)
                            THEN Returned(NoObject)
                            ELSE Raised("database call failed"))
    /\ UNCHANGED <<trainer, fits, evaluated, tracking, artifactFile, pipe>>
    /\ UNCHANGED besidesTrainer

\* cleanup (lines 150-153).
Cleanup ==
    /\ tcall.pc = "idle"
    /\ database' = [database EXCEPT !.open = IF trainer.db THEN FALSE ELSE @]
    /\ TCallEnds("cleanup", Returned(NoObject))
    /\ UNCHANGED <<trainer, fits, evaluated, tracking, artifactFile, pipe>>
    /\ UNCHANGED besidesTrainer

TrainerNext ==
    \/ Setup
    \/ TrainModel
    \/ TrainerEvaluate
    \/ LogToMlflow
    \/ LogToMlflowResumes
    \/ SaveToDatabase
    \/ SavePerformanceMetrics
    \/ Cleanup

-----------------------------------------------------------------------------
(* train_pipeline: src/src/models/train_mlflow.py, lines 156-216 *)

NewPipe ==
    [pc |-> "data", run_id |-> 0, version |-> NoObject, logged |-> FALSE,
     db_failed |-> FALSE, out |-> NoOut]

\* The finally clause (lines 215-216): cleanup closes the database.
Closed(db) == [db EXCEPT !.open = IF trainer.db THEN FALSE ELSE @]

\* An exception leaves the try block: cleanup runs and the pipeline raises.
PipeRaises(e) == [pipe EXCEPT !.pc = "done", !.out = Raised(e)]

\* Lines 160-162: a trainer is made (the configuration is read) and set up.
PipeStart ==
    /\ pipe.pc \in {"none", "done"}
    /\ fits < MaxFits
    /\ \E config_read \in BOOLEAN, url \in BOOLEAN :
          IF config_read
          THEN /\ trainer' = SetupOf(NewTrainer, url)
               /\ database' = [database EXCEPT !.open = IF url THEN TRUE ELSE @]
               /\ evaluated' = 0
               /\ pipe' = NewPipe
          ELSE /\ pipe' = [NewPipe EXCEPT !.pc = "done",
                                          !.out = Raised("config not read")]
               /\ UNCHANGED <<trainer, database, evaluated>>
    /\ UNCHANGED <<fits, tcall, tracking, artifactFile>>
    /\ UNCHANGED besidesTrainer

\* Lines 165-186: the data is read, the target is split off.
PipeLoadData ==
    /\ pipe.pc = "data"
    /\ \E how \in {"ok", "read_csv raised", "No target column found in data"} :
          IF how = "ok"
          THEN /\ pipe' = [pipe EXCEPT !.pc = "train"]
               /\ UNCHANGED database
          ELSE /\ pipe' = PipeRaises(how)
               /\ database' = Closed(database)
    /\ UNCHANGED <<trainer, fits, evaluated, tcall, tracking, artifactFile>>
    /\ UNCHANGED besidesTrainer

\* Line 189.
PipeTrain ==
    /\ pipe.pc = "train"
    /\ \E how \in {"ok", "fit_raises", "init_raises"}, classes \in 1 .. MaxLabels :
          /\ trainer' = TrainerAfterTrain(how, classes)
          /\ fits' = FitsAfterTrain(how)
          /\ IF how = "ok"
             THEN /\ pipe' = [pipe EXCEPT !.pc = "evaluate"]
                  /\ UNCHANGED database
             ELSE /\ pipe' = PipeRaises("train_model raised")
                  /\ database' = Closed(database)
    /\ UNCHANGED <<evaluated, tcall, tracking, artifactFile>>
    /\ UNCHANGED besidesTrainer

\* Line 192.
PipeEvaluate ==
    /\ pipe.pc = "evaluate"
    /\ \E y \in SampleTargets : \E o \in EvaluateOutcomes(y) :
          /\ trainer' = TrainerAfterEvaluate(o)
          /\ evaluated' = EvaluatedAfter(o)
          /\ IF o.kind = "ok"
             THEN /\ pipe' = [pipe EXCEPT !.pc = "log"]
                  /\ UNCHANGED database
             ELSE /\ pipe' = PipeRaises(o.err)
                  /\ database' = Closed(database)
    /\ UNCHANGED <<fits, tcall, tracking, artifactFile>>
    /\ UNCHANGED besidesTrainer

\* Lines 195-198, to the await of log_model_training: the model is dumped
\* to models/saved_models/model.pkl.
PipeLog ==
    /\ pipe.pc = "log"
    /\ Len(tracking) < MaxLogs
    /\ DumpArtifact(TRUE)
    /\ IF LogToMlflowRaises = NoOut
       THEN /\ pipe' = [pipe EXCEPT !.pc = "await_log"]
            /\ UNCHANGED database
       ELSE /\ pipe' = PipeRaises(LogToMlflowRaises.err)
            /\ database' = Closed(database)
    /\ UNCHANGED <<trainer, fits, evaluated, tcall, tracking>>
    /\ UNCHANGED besidesTrainer

\* log_model_training returns a run id, or raises.
PipeLogResumes ==
    /\ pipe.pc = "await_log"
    /\ \/ /\ tracking' = Append(tracking, LoggedRun)
          /\ pipe' = [pipe EXCEPT !.pc = "database", !.logged = TRUE,
                                  !.run_id = Len(tracking) + 1]
          /\ UNCHANGED database
       \/ /\ pipe' = PipeRaises("tracking call failed")
          /\ database' = Closed(database)
          /\ UNCHANGED tracking
    /\ UNCHANGED <<trainer, fits, evaluated, tcall, artifactFile>>
    /\ UNCHANGED besidesTrainer

\* What train_pipeline does when save_to_database or
\* save_performance_metrics raises: nothing catches it (lines 200-203 stand
\* in the try block whose only clause is finally).
PipeDatabaseRaises ==
    [pipe EXCEPT !.pc = "done", !.db_failed = TRUE,
                 !.out = Raised("database call failed")]

\* Lines 201-202: the version is generated and save_to_database awaited.
PipeSaveToDatabase ==
    /\ pipe.pc = "database"
    /\ \E fails \in BOOLEAN :
          IF ~trainer.db
          THEN /\ pipe' = [pipe EXCEPT !.pc = "metrics",
                                       !.version = VersionOf(clock)]
               /\ UNCHANGED database
          ELSE IF fails
          THEN /\ pipe' = [PipeDatabaseRaises EXCEPT !.version = VersionOf(clock)]
               /\ database' = Closed(database)
          ELSE /\ pipe' = [pipe EXCEPT !.pc = "metrics",
                                       !.version = VersionOf(clock)]
               /\ database' = [database EXCEPT !.metadata =
                                  MetadataRow(VersionOf(clock), pipe.run_id)]
    /\ UNCHANGED <<trainer, fits, evaluated, tcall, tracking, artifactFile>>
    /\ UNCHANGED besidesTrainer

\* Line 203: save_performance_metrics awaited.
PipeSavePerformanceMetrics ==
    /\ pipe.pc = "metrics"
    /\ IF ~trainer.db
       THEN /\ pipe' = [pipe EXCEPT !.pc = "return"]
            /\ UNCHANGED database
       ELSE \E k \in 0 .. Cardinality(trainer.metrics.keys) :
               LET rows == [database EXCEPT !.metrics =
                               @ \cup MetricRows(pipe.version, k)]
               IN  IF k = Cardinality(trainer.metrics.keys)
                   THEN /\ pipe' = [pipe EXCEPT !.pc = "return"]
                        /\ database' = rows
                   ELSE /\ pipe' = PipeDatabaseRaises
                        /\ database' = Closed(rows)
    /\ UNCHANGED <<trainer, fits, evaluated, tcall, tracking, artifactFile>>
    /\ UNCHANGED besidesTrainer

\* Lines 205-216: the result is returned and cleanup runs.
PipeReturn ==
    /\ pipe.pc = "return"
    /\ pipe' = [pipe EXCEPT !.pc = "done",
                   !.out = Returned([model_version |-> pipe.version,
                                     run_id |-> pipe.run_id,
                                     metrics |-> trainer.metrics])]
    /\ database' = Closed(database)
    /\ UNCHANGED <<trainer, fits, evaluated, tcall, tracking, artifactFile>>
    /\ UNCHANGED besidesTrainer

PipelineNext ==
    \/ Tick
    \/ PipeStart
    \/ PipeLoadData
    \/ PipeTrain
    \/ PipeEvaluate
    \/ PipeLog
    \/ PipeLogResumes
    \/ PipeSaveToDatabase
    \/ PipeSavePerformanceMetrics
    \/ PipeReturn

-----------------------------------------------------------------------------
(* Specifications: one per component, the other components at rest *)

Init == PredictorInit /\ StoreInit /\ EvalAtRest /\ TrainerInit

Next == PredictorNext

Spec == Init /\ [][Next]_vars

\* The predictor before any client is injected or call is made.
PredictorAtRest ==
    /\ PredictorInit
    /\ mlflow_client = FALSE
    /\ registry = [k \in Keys |-> Null]

InitStore == PredictorAtRest /\ StoreInit /\ EvalAtRest /\ TrainerInit

SpecStore == InitStore /\ [][StoreNext]_vars

InitEval == PredictorAtRest /\ StoreInit /\ EvalInit /\ TrainerInit

InitTrainer == PredictorAtRest /\ StoreInit /\ EvalAtRest /\ TrainerInit

SpecTrainer == InitTrainer /\ [][TrainerNext]_vars

InitPipeline == PredictorAtRest /\ StoreInit /\ EvalAtRest /\ TrainerInit

SpecPipeline == InitPipeline /\ [][PipelineNext]_vars

SpecEval == InitEval /\ [][EvalNext]_vars

\* A predictor whose tracking service holds, under the second key, a record
\* that lacks an indexed key.
PredictorInitMalformed ==
    /\ mlflow_client = TRUE
    /\ model = NoObject
    /\ current_version = None
    /\ current_run_id = None
    /\ model_metadata = NoObject
    /\ registry \in {g \in [Keys -> Records \cup Malformed \cup {Null}] :
                        /\ g["v1"] \in Records \cup {Null}
                        /\ g["v2"] \in Malformed}
    /\ callers = [c \in Callers |-> Fresh]
    /\ returned = NoCall
    /\ succeeded = FALSE

InitMalformed == PredictorInitMalformed /\ StoreInit /\ EvalAtRest /\ TrainerInit

SpecMalformed == InitMalformed /\ [][Next]_vars

-----------------------------------------------------------------------------
(* Properties of ModelPredictor *)

slot == <<model, current_version, current_run_id, model_metadata>>

SlotUnset ==
    /\ model = NoObject
    /\ current_version = None
    /\ current_run_id = None
    /\ model_metadata = NoObject

\* All four fields come from one record of the tracking client.
SlotFromOneRecord ==
    \E r \in Records :
        /\ model = ModelHandle(r.model_uri)
        /\ current_version = r.version
        /\ current_run_id = r.run_id
        /\ model_metadata = r

\* The errors load_model_version can leave predict with.
LoadErrors ==
    {"MLflow client not initialized", "Model version not found",
     "tracking call failed"}

\* C1 as stated: while no load has succeeded, every predict that ends has
\* failed with the not-loaded error "Model not loaded", whether or not it
\* was given a version, and the four fields are unset.
C1_AlwaysNotLoadedError ==
    ~succeeded =>
        /\ SlotUnset
        /\ returned.op = "predict" =>
              /\ returned.out.kind = "err"
              /\ returned.out.err = "Model not loaded"

\* C1 amended: while no load has succeeded, every predict that ends has
\* failed and returned no result: with "Model not loaded" when it had no
\* (truthy) version argument, with the error of its failed
\* load_model_version when it had one; and the four fields are unset.
C1_UnloadedPredictFails ==
    ~succeeded =>
        /\ SlotUnset
        /\ returned.op = "predict" =>
              /\ returned.out.kind = "err"
              /\ IF Truthy(returned.arg)
                 THEN returned.out.err \in LoadErrors
                 ELSE returned.out.err = "Model not loaded"

\* A predict without a version has failed on a predictor nothing was loaded
\* into.
C1_Witness ==
    /\ ~succeeded
    /\ returned.op = "predict"
    /\ ~Truthy(returned.arg)
    /\ returned.out.kind = "err"
    /\ returned.out.err = "Model not loaded"

\* C2: the step in which load_model_version (called directly or by predict)
\* raises the not-found error leaves model, current_version, current_run_id
\* and model_metadata as they were.
C2_NotFoundKeepsLoadedState ==
    [][ (\E c \in Callers :
            /\ callers[c].pc = "await_info"
            /\ callers[c].op \in {"load_model_version", "predict"}
            /\ callers'[c].pc = "idle"
            /\ returned'.out.kind = "err"
            /\ returned'.out.err = "Model version not found")
        => slot' = slot ]_vars

\* load_model_version has failed with not-found on a predictor that holds a
\* loaded model.
C2_Witness ==
    /\ returned.op = "load_model_version"
    /\ returned.out.kind = "err"
    /\ returned.out.err = "Model version not found"
    /\ SlotFromOneRecord

\* C3: a predict that returned a result made exactly one load_model_version
\* call when its version argument differed from the loaded version, and made
\* none when it followed a predict that returned for the same version.
C3_OneReloadThenNone ==
    (returned.op = "predict" /\ returned.out.kind = "ok") =>
        /\ returned.differs => returned.loads = 1
        /\ returned.follows => returned.loads = 0

\* C8: every result predict returns carries the version and run id of the
\* model that computed the prediction, and that version is the one the
\* caller asked for; the slot a caller reads is never a mixture of two
\* records.
C8_ResultIsRequestedVersion ==
    /\ SlotUnset \/ SlotFromOneRecord
    /\ (returned.op = "predict" /\ returned.out.kind = "ok") =>
          /\ \E r \in Records :
                /\ returned.out.value.prediction = r.model_uri
                /\ returned.out.value.model_version = r.version
                /\ returned.out.value.model_run_id = r.run_id
          /\ Truthy(returned.arg) =>
                returned.out.value.model_version = returned.arg

\* The part of C8 the event loop does give: the slot is whole and a result
\* names the model that computed it.
ResultNamesItsModel ==
    /\ SlotUnset \/ SlotFromOneRecord
    /\ (returned.op = "predict" /\ returned.out.kind = "ok") =>
          \E r \in Records :
              /\ returned.out.value.prediction = r.model_uri
              /\ returned.out.value.model_version = r.version
              /\ returned.out.value.model_run_id = r.run_id

\* No lock orders the loads: two callers are never inside a load at once.
LoadsNeverOverlap ==
    Cardinality({c \in Callers : callers[c].pc # "idle"}) <= 1

\* The four fields change only in the step in which a load resumes from
\* load_model and returns.
SlotChangesOnlyByLoad ==
    [][ slot' # slot =>
          \E c \in Callers :
              /\ callers[c].pc = "await_model"
              /\ callers'[c].pc = "idle"
              /\ returned'.out.kind = "ok" ]_vars

\* C11: get_model_info is a pure read. The step in which it answers changes
\* none of model, current_version, current_run_id, model_metadata; a
\* get_model_info that follows a get_model_info, no other call having ended
\* between them, answers as that one did; and it fails with "No model
\* loaded" exactly when there is no metadata.
C11_InfoIsPureRead ==
    /\ [](returned.op = "get_model_info" =>
            /\ returned.follows => returned.out = returned.prev
            /\ IF model_metadata = NoObject
               THEN returned.out = Raised("No model loaded")
               ELSE returned.out.kind = "ok")
    /\ [][ (returned'.op = "get_model_info" /\ callers' = callers)
             => slot' = slot ]_vars

\* A second get_model_info has answered on a predictor that holds a loaded
\* model.
C11_Witness ==
    /\ returned.op = "get_model_info"
    /\ returned.follows
    /\ returned.out.kind = "ok"
    /\ SlotFromOneRecord

\* C12: the four fields are all unset, or all four come from one record of
\* the tracking client: the model was loaded from the metadata's model_uri,
\* and current_version and current_run_id are its version and run_id.
C12_SlotAllOrNothing ==
    \/ SlotUnset
    \/ \E r \in Records :
          /\ model_metadata = r
          /\ model = ModelHandle(r.model_uri)
          /\ current_version = r.version
          /\ current_run_id = r.run_id

-----------------------------------------------------------------------------
(* Properties of the local store *)

\* C4: in every state of the directory, model_latest.pkl and
\* metadata_latest.json are both absent, or both whole and of the same
\* training run.
C4_LatestPairOfOneRun ==
    \/ modelLatest = NoObject /\ metaLatest = NoObject
    \/ /\ modelLatest # NoObject /\ metaLatest # NoObject
       /\ modelLatest.whole /\ metaLatest.whole
       /\ modelLatest.run = metaLatest.run

\* C5: when the call that ended last succeeded, metadata_latest.json holds
\* the version that call returned and is identical to its
\* metadata_<version>.json, and model_<version>.pkl and model_latest.pkl
\* hold that call's model.
C5_LatestIsLastSave ==
    (save.pc = "idle" /\ saved.ok) =>
        /\ metaLatest # NoObject
        /\ metaLatest.whole
        /\ metaLatest.version = saved.version
        /\ metaLatest.run = saved.run
        /\ metaLatest = metaFile[saved.version]
        /\ modelFile[saved.version] = Artifact(saved.run)
        /\ modelLatest = Artifact(saved.run)

\* A later call has succeeded over the files of an earlier successful call.
C5_Witness ==
    /\ save.pc = "idle"
    /\ saved.ok
    /\ saved.run >= 2
    /\ metaLatest = metaFile[saved.version]

\* C6: the versions of any two calls differ and a later call's version is
\* the greater, so no call writes the versioned files of another.
C6_VersionsStrictlyIncrease ==
    \A i, j \in 1 .. Len(runs) :
        i < j => VersionLess(runs[i], runs[j])

-----------------------------------------------------------------------------
(* Properties of the evaluations *)

\* The test target has exactly two labels and the classifier has
\* predict_proba.
BinaryWithProba == evalModel.proba /\ Cardinality(Unique(evalTarget)) = 2

\* C7: a metric mapping either evaluation returns holds roc_auc exactly when
\* the classifier has predict_proba and the test target has two labels; for
\* one label or three and more the evaluation returns, without error, the
\* four other metrics and no roc_auc.
C7_RocAucIffBinary ==
    evalBy # None =>
        /\ evalOut.kind = "ok" =>
              ("roc_auc" \in evalOut.value <=> BinaryWithProba)
        /\ Cardinality(Unique(evalTarget)) # 2 =>
              /\ evalOut.kind = "ok"
              /\ BaseMetrics \subseteq evalOut.value

\* The same, of the function of train.py alone.
RocAucIffBinaryInTrainPy ==
    evalBy = "evaluate_model" =>
        /\ evalOut.kind = "ok" =>
              ("roc_auc" \in evalOut.value <=> BinaryWithProba)
        /\ Cardinality(Unique(evalTarget)) # 2 =>
              /\ evalOut.kind = "ok"
              /\ BaseMetrics \subseteq evalOut.value

-----------------------------------------------------------------------------
(* Properties of ModelTrainer and train_pipeline *)

\* C10: log_to_mlflow gets as far as log_model_training only on a trainer in
\* state Evaluated, and every run the tracking service holds carries the
\* metrics of an evaluation of the model logged with them.
C10_LogOnlyWhenEvaluated ==
    /\ (tcall.op = "log_to_mlflow" /\
        (tcall.pc = "await_log" \/ tcall.out.kind = "ok")) =>
            tcall.state = "Evaluated"
    /\ \A i \in 1 .. Len(tracking) :
          tracking[i].metrics_of = tracking[i].model

\* The part of C10 the code does enforce: on a trainer without a model
\* log_to_mlflow raises and logs nothing.
LogRaisesWhenConfigured ==
    (tcall.op = "log_to_mlflow" /\ tcall.state = "Configured") =>
        /\ tcall.pc = "idle"
        /\ tcall.out.kind = "err"

\* C9: a train_pipeline whose database bookkeeping raised after the model
\* was logged still ends by returning its result, and the logged model and
\* its artifact are still there.
C9_DatabaseFailureNotFatal ==
    (pipe.pc = "done" /\ pipe.logged /\ pipe.db_failed) =>
        /\ pipe.out.kind = "ok"
        /\ pipe.out.value.run_id = pipe.run_id
        /\ Len(tracking) >= pipe.run_id
        /\ artifactFile # NoObject

\* The part of C9 the code does give: nothing deletes the logged run or the
\* dumped model.
LoggedModelIsKept ==
    pipe.logged =>
        /\ Len(tracking) >= pipe.run_id
        /\ artifactFile # NoObject

====
